---- MODULE Spec2Model ----
(***************************************************************************)
(* in-vue: defineInVueComponent(loader, options).                          *)
(*                                                                         *)
(* Two variants of defineInVueComponent live in the repository:            *)
(*   "main"    src/lib/main.ts                                             *)
(*   "part000" src/unnamed/part_000                                        *)
(* Both hand an options object to Vue's defineAsyncComponent.  The model   *)
(* holds the state of one definition (one call of defineInVueComponent),   *)
(* of the async-component wrapper Vue builds from it, and of up to NumInst *)
(* instances of that component rendered by the host application.           *)
(*                                                                         *)
(* Vue's part (defineAsyncComponent) is modelled as its runtime behaves:    *)
(* load() caches the pending request, a rejected loader promise goes to    *)
(* the onError option with (retry, fail, retries + 1), the timeout timer   *)
(* of an instance that is neither loaded nor in error puts it in error and *)
(* clears the pending request, and the loading component is rendered until *)
(* the instance is loaded or shows the error component.                    *)
(*                                                                         *)
(* "producer" is the user's loader argument (() => import(...)).           *)
(* "request" is one promise Vue's load() obtained from the `loader` option *)
(* that defineInVueComponent passes to defineAsyncComponent.               *)
(*                                                                         *)
(* Spec is the program for a user who gives no onError of their own,       *)
(* HandlerSpec the program for one who does, and DelaySpec the backoff     *)
(* arithmetic of onError for every jitter draw.                            *)
(***************************************************************************)
EXTENDS Integers, Sequences, FiniteSets, TLC

\* Bounds of the model.
NumInst == 2
MaxRetriesBound == 2
MaxEntries == 2
FracBits == 8

\* retryDelay = 1000 unless the options say otherwise.
DefaultRetryDelay == 1000

Inst == 1 .. NumInst

VARIABLES
  variant,          \* which source file's defineInVueComponent
  hasIO,            \* 'IntersectionObserver' in window
  maxRetries,       \* options.maxRetries
  userOnError,      \* options.onError given by the user (one of ...restOptions)
  errorComponent,   \* options.errorComponent given (part of restOptions)
  resolveComponent, \* main.ts:16, the request whose resolve it holds (0: unassigned)
  pendingRequest,   \* Vue: the request load() would return (0: null)
  retries,          \* Vue: retries counter of the async component
  resolvedComp,     \* Vue: the resolved component (0: none), a producer call's value
  reqs,             \* the requests created so far
  timers,           \* requests whose onError scheduled setTimeout(retry, ...)
  calls,            \* the producer invocations so far
  inst,             \* per instance: "unset", or "active" once the host rendered it
  awaiting,         \* per instance: the request its load().then() hangs on
  timedOut,         \* per instance: Vue's timeout timer has put it in error
  ph,               \* per instance: its placeholder, "none", "mounted", "unmounted"
                    \* (replaced by other content, or removed by the host)
  observing,        \* per instance: its observer observes the placeholder's element
  loadStarts,       \* per instance: calls of loadComponent
  sawIntersecting,  \* per instance: an entry with isIntersecting was delivered
  tornDownIdle,     \* per instance: placeholder unmounted before any such entry
  retryDelay,       \* options.retryDelay, in ms
  attemptNo,        \* the attempts argument of the last onError that scheduled a retry
  scheduledDelay    \* the delay it gave setTimeout, in units of 1/(2 * Grid) ms

\* The backoff arithmetic.  The actions of Spec leave it alone: there a timer
\* that was scheduled may fire at any time, whatever its delay.
delayVars == <<retryDelay, attemptNo, scheduledDelay>>
cfgVars == <<variant, hasIO, maxRetries, errorComponent, userOnError, delayVars>>
vueVars == <<pendingRequest, retries, resolvedComp, reqs, timers, awaiting, timedOut>>
gateVars == <<ph, observing, loadStarts, sawIntersecting, tornDownIdle>>
vars == <<cfgVars, vueVars, gateVars, resolveComponent, calls, inst>>

NewReq == [st |-> "pending", val |-> 0, next |-> 0, how |-> "-"]
NewCall(o) == [owner |-> o, st |-> "running"]

\* Batches of entries an observer may hand to its callback.
RECURSIVE SeqsUpTo(_)
SeqsUpTo(n) ==
  IF n = 0 THEN {<<>>}
  ELSE LET S == SeqsUpTo(n - 1) IN
       S \cup {Append(s, b) : s \in {t \in S : Len(t) = n - 1}, b \in BOOLEAN}

Batches == SeqsUpTo(MaxEntries) \ {<<>>}

----------------------------------------------------------------------------
\* The backoff delay, computed in floating point as the code computes it.
\* Numbers are binary floating-point with Precision significant bits, rounded
\* to nearest, ties to even (a double has 53); Math.random() draws a multiple
\* of 1/Grid in [0, 1), Grid = 2^FracBits (2^52 in V8), given as its numerator.

RECURSIVE Pow2(_)
Pow2(n) == IF n <= 0 THEN 1 ELSE 2 * Pow2(n - 1)

Grid == Pow2(FracBits)
Precision == FracBits + 1
Draws == 0 .. Grid - 1

RECURSIVE BitLen(_)
BitLen(n) == IF n = 0 THEN 0 ELSE 1 + BitLen(n \div 2)

RoundHalfEven(n, q) ==
  LET d == n \div q
      r == n % q
  IN  IF 2 * r < q THEN d
      ELSE IF 2 * r > q THEN d + 1
      ELSE IF d % 2 = 0 THEN d ELSE d + 1

\* The floating-point number nearest to n (n counted in any power-of-two unit).
fl(n) ==
  IF BitLen(n) <= Precision THEN n
  ELSE LET q == Pow2(BitLen(n) - Precision) IN RoundHalfEven(n, q) * q

\* retryDelay * Math.pow(2, attempts - 1), in ms.
baseDelay(rd, k) == fl(rd * Pow2(k - 1))

\* A jitter that adds up to 100% instead of up to 50%.
jitteredDelayFullJitter(rd, k, draw) ==
  fl(baseDelay(rd, k) * fl(2 * Grid + 2 * draw))

\* baseDelay * (1 + Math.random() * 0.5), in units of 1/(2 * Grid) ms:
\* Math.random() * 0.5 is draw units, 1 is 2 * Grid units.
jitteredDelay(rd, k, draw) ==
  fl(baseDelay(rd, k) * fl(2 * Grid + draw))

----------------------------------------------------------------------------
\* Promise plumbing of Vue's load(): loader().catch(...).then(comp => ...).

RECURSIVE Adopt(_, _, _, _)
RECURSIVE Reject(_, _)
RECURSIVE InformAll(_, _, _, _, _)
RECURSIVE Then(_, _, _, _)

\* The .then(comp => ...) handler of request r, run with value v while pr is
\* pendingRequest: a request that is no longer the pending one follows the
\* pending one; otherwise the component is stored.
Then(S, r, v, pr) ==
  IF r # pr /\ pr # 0
  THEN CASE S.reqs[pr].st = "fulfilled" -> Adopt(S, r, S.reqs[pr].val, pr)
         [] S.reqs[pr].st = "rejected" -> Reject(S, r)
         [] OTHER -> [S EXCEPT !.reqs[r].next = pr, !.reqs[r].how = "T"]
  ELSE Adopt([S EXCEPT !.comp = v], r, v, pr)

\* Request r is fulfilled with v; the requests that follow it are informed.
Adopt(S, r, v, pr) ==
  LET S1 == [S EXCEPT !.reqs[r].st = "fulfilled", !.reqs[r].val = v]
      F == {q \in DOMAIN S.reqs : S.reqs[q].st = "pending" /\ S.reqs[q].next = r}
  IN  InformAll(S1, F, v, pr, TRUE)

\* Request r is rejected; the requests that follow it are rejected too.
Reject(S, r) ==
  LET S1 == [S EXCEPT !.reqs[r].st = "rejected"]
      F == {q \in DOMAIN S.reqs : S.reqs[q].st = "pending" /\ S.reqs[q].next = r}
  IN  InformAll(S1, F, 0, 0, FALSE)

InformAll(S, F, v, pr, ok) ==
  IF F = {} THEN S
  ELSE LET q == CHOOSE x \in F : TRUE
           S1 == IF S.reqs[q].st # "pending" THEN S
                 ELSE IF ~ok THEN Reject(S, q)
                 ELSE IF S.reqs[q].how = "N" THEN Then(S, q, v, pr)
                 ELSE Adopt(S, q, v, pr)
       IN  InformAll(S1, F \ {q}, v, pr, ok)

\* A resolve function that would overwrite a promise already resolved.
resolveOverwriting(S, slot, v, pr) ==
  IF slot # 0 THEN Then(S, slot, v, pr) ELSE S

\* resolveComponent(component): the resolve function of the promise the outer
\* loader created.  Resolving a promise that is already resolved does nothing.
resolve(S, slot, v, pr) ==
  IF slot # 0 /\ S.reqs[slot].st = "pending" THEN Then(S, slot, v, pr) ELSE S

----------------------------------------------------------------------------
\* What an instance of the async component shows.

loaded(i, rq) == inst[i] # "unset" /\ (awaiting[i] = 0 \/ rq[awaiting[i]].st = "fulfilled")
error(i, rq, to) == inst[i] # "unset" /\ (to[i] \/ (awaiting[i] # 0 /\ rq[awaiting[i]].st = "rejected"))

\* The placeholder (loadingComponent) stays only while neither the resolved
\* component nor the error component is rendered.
KeepsPlaceholder(i, rq, to, comp) ==
  /\ inst[i] = "active"
  /\ ~(loaded(i, rq) /\ comp # 0)
  /\ ~(error(i, rq, to) /\ errorComponent)

\* Re-render: placeholders that are no longer shown are unmounted.  Nothing
\* in the placeholder's setup releases the observer on unmount.
Rerender(rq, to, comp, gone) ==
  /\ ph' = [i \in Inst |->
              IF ph[i] = "mounted" /\ (i \in gone \/ ~KeepsPlaceholder(i, rq, to, comp))
              THEN "unmounted" ELSE ph[i]]
  /\ tornDownIdle' = [i \in Inst |->
              tornDownIdle[i] \/ (ph[i] = "mounted" /\ ph'[i] = "unmounted"
                                  /\ ~sawIntersecting[i] /\ loadStarts[i] = 0)]

\* A request an instance awaits was rejected: Vue's internal onError clears
\* pendingRequest.
RejectedNow(rq) ==
  \E i \in Inst : /\ inst[i] # "unset" /\ awaiting[i] # 0
                  /\ reqs[awaiting[i]].st = "pending" /\ rq[awaiting[i]].st = "rejected"

----------------------------------------------------------------------------
\* A loader whose promise executor forgets to store its resolve function.
loaderNotStoring(rq, cl, slot) ==
  LET id == Len(rq) + 1 IN
  CASE variant = "part000" /\ ~hasIO ->
         [reqs |-> Append(rq, NewReq), calls |-> Append(cl, NewCall(id)), slot |-> slot]
    [] OTHER ->
         [reqs |-> Append(rq, NewReq), calls |-> cl, slot |-> slot]

\* The `loader` option: what Vue's load() calls when no request is pending.
\* Gives the requests, the producer calls and the resolve slot afterwards.
loader(rq, cl, slot) ==
  LET id == Len(rq) + 1 IN
  CASE variant = "main" ->
         [reqs |-> Append(rq, NewReq), calls |-> cl, slot |-> id]
    [] variant = "part000" /\ hasIO ->
         [reqs |-> Append(rq, NewReq), calls |-> cl, slot |-> slot]
    [] OTHER ->
         [reqs |-> Append(rq, NewReq), calls |-> Append(cl, NewCall(id)), slot |-> slot]

\* loadComponent of placeholder i, up to its await: the producer is invoked.
loadComponent(i) ==
  /\ calls' = Append(calls, NewCall(i))
  /\ loadStarts' = [loadStarts EXCEPT ![i] = @ + 1]

\* An onMounted hook that loads at once and also observes.
onMountedEager(i) ==
  /\ loadComponent(i)
  /\ observing' = [observing EXCEPT ![i] = hasIO]

\* An onMounted hook that skips the feature test and always observes.
onMountedAlwaysObserve(i) ==
  /\ observing' = [observing EXCEPT ![i] = TRUE]
  /\ UNCHANGED <<calls, loadStarts>>

\* The onMounted hook of the placeholder of instance i.
onMounted(i) ==
  IF ~hasIO
  THEN loadComponent(i) /\ UNCHANGED observing
  ELSE /\ observing' = [observing EXCEPT ![i] = TRUE]
       /\ UNCHANGED <<calls, loadStarts>>

----------------------------------------------------------------------------
Init ==
  /\ variant \in {"main", "part000"}
  /\ hasIO \in BOOLEAN
  /\ maxRetries \in -1 .. MaxRetriesBound
  /\ errorComponent \in BOOLEAN
  /\ userOnError = FALSE
  /\ resolveComponent = 0
  /\ pendingRequest = 0
  /\ retries = 0
  /\ resolvedComp = 0
  /\ reqs = <<>>
  /\ timers = {}
  /\ calls = <<>>
  /\ inst = [i \in Inst |-> "unset"]
  /\ awaiting = [i \in Inst |-> 0]
  /\ timedOut = [i \in Inst |-> FALSE]
  /\ ph = [i \in Inst |-> "none"]
  /\ observing = [i \in Inst |-> FALSE]
  /\ loadStarts = [i \in Inst |-> 0]
  /\ sawIntersecting = [i \in Inst |-> FALSE]
  /\ tornDownIdle = [i \in Inst |-> FALSE]
  /\ retryDelay = DefaultRetryDelay
  /\ attemptNo = 0
  /\ scheduledDelay = 0

\* The host renders instance i: Vue runs the wrapper's setup, which calls load().
\* Instances are interchangeable and numbered in the order they are rendered.
SetupInstance(i) ==
  /\ inst[i] = "unset"
  /\ \A j \in Inst : j < i => inst[j] # "unset"
  /\ inst' = [inst EXCEPT ![i] = "active"]
  /\ IF resolvedComp # 0
     THEN UNCHANGED <<pendingRequest, reqs, calls, resolveComponent, awaiting>>
     ELSE IF pendingRequest # 0
     THEN /\ awaiting' = [awaiting EXCEPT ![i] = pendingRequest]
          /\ UNCHANGED <<pendingRequest, reqs, calls, resolveComponent>>
     ELSE LET L == loader(reqs, calls, resolveComponent) IN
          /\ reqs' = L.reqs
          /\ calls' = L.calls
          /\ resolveComponent' = L.slot
          /\ pendingRequest' = Len(L.reqs)
          /\ awaiting' = [awaiting EXCEPT ![i] = Len(L.reqs)]
  /\ UNCHANGED <<cfgVars, retries, resolvedComp, timers, timedOut, gateVars>>

\* Vue's delay has passed and the placeholder is rendered and mounted.  Only
\* main.ts passes a loadingComponent to defineAsyncComponent.
MountPlaceholder(i) ==
  /\ variant = "main"
  /\ ph[i] = "none"
  /\ KeepsPlaceholder(i, reqs, timedOut, resolvedComp)
  /\ ph' = [ph EXCEPT ![i] = "mounted"]
  /\ onMounted(i)
  /\ UNCHANGED <<cfgVars, vueVars, resolveComponent, inst, sawIntersecting, tornDownIdle>>

\* The observer of placeholder i calls back with a batch of entries: every
\* change queued for its one target since the last callback, oldest first.
\* The callback looks at entries[0] only.  An observer calls back as long as
\* it observes the element, mounted or not: an entry queued while the
\* placeholder was mounted may be delivered after it was removed.
Deliver(i, entries) ==
  /\ observing[i]
  /\ sawIntersecting' = [sawIntersecting EXCEPT
                           ![i] = @ \/ (\E k \in DOMAIN entries : entries[k])]
  /\ IF ~entries[1]
     THEN UNCHANGED <<observing, calls, loadStarts>>
     ELSE /\ observing' = [observing EXCEPT ![i] = FALSE]
          /\ loadComponent(i)
  /\ UNCHANGED <<cfgVars, vueVars, resolveComponent, inst, ph, tornDownIdle>>

\* The keys the user's options leave in restOptions.
restOptions ==
  (IF errorComponent THEN {"errorComponent"} ELSE {})
    \cup (IF userOnError THEN {"onError"} ELSE {})

\* The keys the object literal writes after the spread of restOptions.
ownOptions ==
  {"timeout", "loader", "onError"}
    \cup (IF variant = "main" THEN {"loadingComponent"} ELSE {})

\* { ...restOptions, timeout, loader, loadingComponent, onError }: whose value
\* each key of the object given to defineAsyncComponent holds.  A key written
\* later in the literal replaces the one the spread put there.
asyncOptions ==
  [k \in restOptions \cup ownOptions |->
     IF k \in ownOptions THEN "own" ELSE "user"]

\* onError(error, retry, fail, attempts) for a failed load of request r.
onError(r, attempts) ==
  IF attempts > maxRetries
  THEN LET S == Reject([reqs |-> reqs, comp |-> resolvedComp], r) IN
       /\ reqs' = S.reqs
       /\ pendingRequest' = IF RejectedNow(S.reqs) THEN 0 ELSE pendingRequest
       /\ UNCHANGED timers
  ELSE /\ timers' = timers \cup {r}
       /\ UNCHANGED <<reqs, pendingRequest>>

\* A producer invocation completes, with a value (ok) or an error.
ProducerDone(c, ok) ==
  /\ c \in DOMAIN calls
  /\ calls[c].st = "running"
  /\ calls' = [calls EXCEPT ![c].st = IF ok THEN "ok" ELSE "failed"]
  /\ IF variant = "main"
     THEN \* loadComponent resumes after its await
          \* (a producer error leaves loadComponent's promise rejected, unhandled)
          IF ok
          THEN LET S == resolve([reqs |-> reqs, comp |-> resolvedComp],
                                resolveComponent, c, pendingRequest) IN
               /\ reqs' = S.reqs
               /\ resolvedComp' = S.comp
               /\ UNCHANGED <<pendingRequest, timers>>
          ELSE UNCHANGED <<reqs, resolvedComp, pendingRequest, timers>>
     ELSE \* the producer is the loader option itself
          IF ok
          THEN LET S == Then([reqs |-> reqs, comp |-> resolvedComp],
                             calls[c].owner, c, pendingRequest) IN
               /\ reqs' = S.reqs
               /\ resolvedComp' = S.comp
               /\ UNCHANGED <<pendingRequest, timers>>
          ELSE /\ IF asyncOptions["onError"] = "own"
                  THEN onError(calls[c].owner, retries + 1)
                  ELSE \* a handler of the user's: neither retry() nor fail()
                       UNCHANGED <<reqs, pendingRequest, timers>>
               /\ UNCHANGED resolvedComp
  /\ Rerender(reqs', timedOut, resolvedComp', {})
  /\ UNCHANGED <<cfgVars, retries, resolveComponent, inst, awaiting, timedOut,
                 observing, loadStarts, sawIntersecting>>

\* A backoff timer fires: Vue's retry() counts the retry and loads again.
RetryTimer(r) ==
  /\ r \in timers
  /\ timers' = timers \ {r}
  /\ retries' = retries + 1
  /\ LET L == loader(reqs, calls, resolveComponent) IN
     /\ reqs' = [L.reqs EXCEPT ![r].next = Len(L.reqs), ![r].how = "N"]
     /\ calls' = L.calls
     /\ resolveComponent' = L.slot
     /\ pendingRequest' = Len(L.reqs)
  /\ UNCHANGED <<cfgVars, resolvedComp, awaiting, timedOut, inst, gateVars>>

\* Vue's timeout timer of instance i fires while it is neither loaded nor in error.
Timeout(i) ==
  /\ inst[i] # "unset"
  /\ ~loaded(i, reqs)
  /\ ~error(i, reqs, timedOut)
  /\ timedOut' = [timedOut EXCEPT ![i] = TRUE]
  /\ pendingRequest' = 0
  /\ Rerender(reqs, timedOut', resolvedComp, {})
  /\ UNCHANGED <<cfgVars, retries, resolvedComp, reqs, timers, awaiting,
                 resolveComponent, calls, inst, observing, loadStarts, sawIntersecting>>

\* The host removes instance i, and with it its mounted placeholder, from the
\* tree.  Vue clears none of the instance's timers or promise handlers.
Unmount(i) ==
  /\ ph[i] = "mounted"
  /\ Rerender(reqs, timedOut, resolvedComp, {i})
  /\ UNCHANGED <<cfgVars, vueVars, resolveComponent, calls, inst, observing,
                 loadStarts, sawIntersecting>>

Next ==
  \/ \E i \in Inst : SetupInstance(i)
  \/ \E i \in Inst : MountPlaceholder(i)
  \/ \E i \in Inst, entries \in Batches : Deliver(i, entries)
  \/ \E c \in 1 .. Len(calls), ok \in BOOLEAN : ProducerDone(c, ok)
  \/ \E r \in timers : RetryTimer(r)
  \/ \E i \in Inst : Timeout(i)
  \/ \E i \in Inst : Unmount(i)

Spec == Init /\ [][Next]_vars

----------------------------------------------------------------------------
\* The backoff arithmetic of onError on its own: one definition whose producer
\* keeps failing, for each retryDelay and maxRetries and every jitter draw.

RetryDelays == {1, 3, DefaultRetryDelay}

\* Nothing has been rendered yet.
Idle ==
  /\ resolveComponent = 0
  /\ pendingRequest = 0
  /\ retries = 0
  /\ resolvedComp = 0
  /\ reqs = <<>>
  /\ timers = {}
  /\ calls = <<>>
  /\ inst = [i \in Inst |-> "unset"]
  /\ awaiting = [i \in Inst |-> 0]
  /\ timedOut = [i \in Inst |-> FALSE]
  /\ ph = [i \in Inst |-> "none"]
  /\ observing = [i \in Inst |-> FALSE]
  /\ loadStarts = [i \in Inst |-> 0]
  /\ sawIntersecting = [i \in Inst |-> FALSE]
  /\ tornDownIdle = [i \in Inst |-> FALSE]

DelayInit ==
  /\ variant = "part000"
  /\ hasIO = FALSE
  /\ maxRetries \in 0 .. MaxRetriesBound
  /\ errorComponent = FALSE
  /\ userOnError = FALSE
  /\ Idle
  /\ retryDelay \in RetryDelays
  /\ attemptNo = 0
  /\ scheduledDelay = 0

\* The attempt after the last one fails too and onError schedules the retry:
\* setTimeout(retry, jitteredDelay).
ScheduleRetry(draw) ==
  /\ attemptNo + 1 <= maxRetries
  /\ attemptNo' = attemptNo + 1
  /\ scheduledDelay' = jitteredDelay(retryDelay, attemptNo', draw)
  /\ UNCHANGED <<variant, hasIO, maxRetries, errorComponent, userOnError, retryDelay, vueVars,
                 gateVars, resolveComponent, calls, inst>>

DelayNext == \E draw \in Draws : ScheduleRetry(draw)

DelaySpec == DelayInit /\ [][DelayNext]_vars

----------------------------------------------------------------------------
\* The same program when the user's options carry an onError handler of their
\* own (Spec is the program without one).

HandlerInit ==
  /\ variant \in {"main", "part000"}
  /\ hasIO \in BOOLEAN
  /\ maxRetries \in 0 .. MaxRetriesBound
  /\ errorComponent = FALSE
  /\ userOnError = TRUE
  /\ Idle
  /\ retryDelay = DefaultRetryDelay
  /\ attemptNo = 0
  /\ scheduledDelay = 0

HandlerSpec == HandlerInit /\ [][Next]_vars

----------------------------------------------------------------------------
\* Properties.

OneInstance == Cardinality({i \in Inst : inst[i] = "active"}) = 1
AllFailed == Len(calls) >= 1 /\ \A c \in DOMAIN calls : calls[c].st = "failed"
Succeeded == \E r \in DOMAIN reqs : reqs[r].st = "fulfilled"
Failed == \E r \in DOMAIN reqs : reqs[r].st = "rejected"
\* The first intersecting entry reached the callback while the placeholder was mounted.
BecameVisible(i) == sawIntersecting[i] /\ ~tornDownIdle[i]

\* C1: with IntersectionObserver present, the producer is invoked only after
\* the placeholder was mounted and its observer delivered an entry with
\* isIntersecting = true; while no such entry was delivered, the producer has
\* been invoked 0 times.
C1_NoInvocationBeforeVisible ==
  hasIO =>
    /\ \A i \in Inst : loadStarts[i] >= 1 => (ph[i] # "none" /\ sawIntersecting[i])
    /\ (\A i \in Inst : ~sawIntersecting[i]) => Len(calls) = 0

C1_Witness ==
  /\ hasIO /\ variant = "main"
  /\ \E i \in Inst : sawIntersecting[i] /\ loadStarts[i] = 1 /\ Len(calls) = 1

\* C2: once an intersecting entry has been delivered for a mounted
\* placeholder, the producer has been invoked for that placeholder (the
\* callback invokes it synchronously or not at all).
C2_VisibleThenInvoked ==
  \A i \in Inst :
    BecameVisible(i) => \E c \in DOMAIN calls : calls[c].owner = i

\* C3: with one instance, once a producer that failed on every invocation has
\* nothing more in flight or scheduled, it was invoked exactly maxRetries + 1
\* times, exactly maxRetries delays were scheduled, and the task has failed.
C3_AlwaysFailingExhausts ==
  (OneInstance /\ AllFailed /\ timers = {}) =>
    /\ Len(calls) = maxRetries + 1
    /\ retries = maxRetries
    /\ Failed

\* C4: with one instance, a success on attempt m is the last invocation, the
\* task has succeeded with that attempt's value and no delay is scheduled;
\* and while attempts 1..k have all failed with k <= maxRetries, attempt k+1
\* is still owed: a delay is scheduled for it.
C4_SucceedsOnAttemptM ==
  OneInstance =>
    /\ \A m \in DOMAIN calls :
         calls[m].st = "ok" =>
           m = Len(calls) /\ timers = {} /\ Succeeded /\ resolvedComp = m
    /\ (AllFailed /\ Len(calls) <= maxRetries) => timers # {}

\* C5: for a placeholder to whose callback an intersecting entry has been
\* delivered, whatever entries came with it or after it, loadComponent has
\* been called exactly once.
C5_ExactlyOneStart ==
  \A i \in Inst : BecameVisible(i) => loadStarts[i] = 1

C7_SequentialAttempts ==
  Cardinality({c \in DOMAIN calls : calls[c].st = "running"}) <= 1

\* C8: a request that has been resolved keeps the value it was resolved with:
\* a later resolution attempt changes nothing.
C8_SingleAssignment ==
  [][\A r \in DOMAIN reqs :
       reqs[r].st = "fulfilled" =>
         reqs'[r].st = "fulfilled" /\ reqs'[r].val = reqs[r].val]_vars

C8_Witness ==
  /\ variant = "main"
  /\ \E c, d \in DOMAIN calls : c # d /\ calls[c].st = "ok" /\ calls[d].st = "ok"
  /\ resolveComponent # 0 /\ reqs[resolveComponent].st = "fulfilled"

\* C9: once the load has started and no producer invocation is in flight and
\* no backoff timer is scheduled, so that nothing further will happen on its
\* own, the task is Succeeded or Failed.
C9_TerminalWhenQuiet ==
  (/\ Len(calls) >= 1
   /\ \A c \in DOMAIN calls : calls[c].st # "running"
   /\ timers = {}) => (Succeeded \/ Failed)

\* C10: without IntersectionObserver no observer ever observes and no entry is
\* ever delivered, and the producer is invoked in the very step that mounts
\* the placeholder (main.ts) or first sets the component up (part_000).
C10_FallbackImmediate ==
  ~hasIO =>
    /\ \A i \in Inst : ~observing[i] /\ ~sawIntersecting[i]
    /\ variant = "main" =>
         \A i \in Inst : ph[i] # "none" => loadStarts[i] = 1
    /\ variant = "part000" =>
         ((\E i \in Inst : inst[i] = "active") => Len(calls) >= 1)

C10_Witness ==
  /\ ~hasIO /\ variant = "main"
  /\ \E i \in Inst : ph[i] = "mounted" /\ loadStarts[i] = 1
                      /\ \E c \in DOMAIN calls : calls[c].owner = i

\* C11 (as claimed): the delay scheduled after the k-th failed attempt is at
\* least retryDelay * 2^(k-1) and strictly below retryDelay * 2^(k-1) * 1.5.
C11_DelayInHalfOpenRange ==
  attemptNo >= 1 =>
    /\ scheduledDelay >= 2 * Grid * retryDelay * Pow2(attemptNo - 1)
    /\ scheduledDelay < 3 * Grid * retryDelay * Pow2(attemptNo - 1)

\* C11 (amended): the delay scheduled after the k-th failed attempt is at
\* least retryDelay * 2^(k-1) and at most retryDelay * 2^(k-1) * 1.5, for
\* every k in 1..maxRetries and every draw, with no cap.
C11_DelayInClosedRange ==
  attemptNo >= 1 =>
    /\ attemptNo <= maxRetries
    /\ scheduledDelay >= 2 * Grid * retryDelay * Pow2(attemptNo - 1)
    /\ scheduledDelay <= 3 * Grid * retryDelay * Pow2(attemptNo - 1)

\* The largest draw has been made for a second retry: the bound is reached.
C11_Witness ==
  /\ attemptNo = 2
  /\ retryDelay = DefaultRetryDelay
  /\ scheduledDelay = 3 * Grid * retryDelay * Pow2(attemptNo - 1)

\* C12: a producer error stays inside the loader: the failed attempt is either
\* followed by a scheduled retry or turned into the exhausted-retries failure
\* of the task; it is never left to escape as a rejection nobody handles.
C12_ProducerErrorAbsorbed ==
  [][\A c \in DOMAIN calls :
       (calls[c].st = "running" /\ calls'[c].st = "failed")
         => (timers' # timers \/ reqs' # reqs)]_vars

\* C13: a definition made with invalid options (a negative maxRetries) never
\* gets as far as rendering: no instance is set up, no observer observes and
\* the producer is never invoked.
C13_InvalidOptionsRejected ==
  maxRetries < 0 =>
    /\ calls = <<>>
    /\ \A i \in Inst : inst[i] = "unset" /\ ~observing[i]

\* C14: when the user's options carry an onError handler and a load attempt has
\* failed, the onError the async component was given is the user's.
C14_UserOnErrorPassedThrough ==
  (userOnError /\ \E c \in DOMAIN calls : calls[c].st = "failed")
    => asyncOptions["onError"] = "user"

\* The producer invocations that have failed so far.
FailedAttempts == Cardinality({c \in DOMAIN calls : calls[c].st = "failed"})

\* C15: the retry counter never decreases; when an attempt fails, the attempt
\* count the failure is handled with (retries + 1) is the number of attempts
\* that have failed so far; the task is failed after that step exactly when
\* this count exceeds maxRetries, and then no retry timer is added.
C15_AttemptCountAndFailure ==
  [][/\ retries' >= retries
     /\ \A c \in DOMAIN calls :
          (calls[c].st = "running" /\ calls'[c].st = "failed") =>
            /\ retries + 1 = FailedAttempts'
            /\ Failed' <=> (FailedAttempts' > maxRetries)
            /\ FailedAttempts' > maxRetries => timers' = timers]_vars

\* C16: an observer does not observe a placeholder whose callback has already
\* started the load, nor one that has been removed.
C16_ObserverReleased ==
  \A i \in Inst :
    (loadStarts[i] > 0 \/ ph[i] = "unmounted") => ~observing[i]

\* C17: once the timeout has put an instance in the timed-out state, no later
\* step makes that instance loaded: the task does not succeed after the
\* timeout failure.
C17_NoSuccessAfterTimeout ==
  [][\A i \in Inst :
       (timedOut[i] /\ ~loaded(i, reqs)) => ~loaded(i, reqs)']_vars

\* C18: whenever loadComponent resumes with the producer's value and calls
\* resolveComponent, the outer loader has already stored a resolve function
\* in it.
C18_ResolveAssignedBeforeCalled ==
  [][\A c \in DOMAIN calls :
       (variant = "main" /\ calls[c].st = "running" /\ calls'[c].st = "ok")
         => resolveComponent # 0]_vars

\* Two placeholders have loaded, one of them after the timeout of its
\* instance, and the stored resolve function has settled the request.
C18_Witness ==
  /\ variant = "main"
  /\ hasIO
  /\ resolveComponent # 0
  /\ Succeeded
  /\ \E i \in Inst : timedOut[i] /\ loadStarts[i] > 0
  /\ Cardinality({c \in DOMAIN calls : calls[c].st = "ok"}) >= 2

\* C19: the timeout does not put an instance in the timed-out state while its
\* region has not become visible and its placeholder has not invoked the
\* producer.
C19_NoTimeoutWhileIdle ==
  \A i \in Inst :
    (variant = "main" /\ hasIO /\ ~sawIntersecting[i] /\ loadStarts[i] = 0)
      => ~timedOut[i]

====
